---- MODULE Spec2Model ----
(***************************************************************************)
(* A model of blockstack_zones/parse_zone_file.py: the zonefile tokenizer, *)
(* the token serializer, the comment stripper, the flattener, the name     *)
(* defaulter, the per-line grammar dispatcher (parse_line over argparse)   *)
(* and the parse_lines / parse_zone_file pipeline.                         *)
(*                                                                         *)
(* A Python string is a sequence of one-character strings; a token list is *)
(* a sequence of such sequences.  Field names of a parsed record are       *)
(* TLA+ strings; field values are character sequences or integers.         *)
(*                                                                         *)
(* The source is Python 2 code (`filter(...) + ['']` and deleting from a   *)
(* dict while looping over its keys() need lists), so str, int and         *)
(* argparse are modelled as CPython 2.7 has them, on byte strings.         *)
(***************************************************************************)
EXTENDS Integers, Sequences, FiniteSets, TLC

VARIABLES
    op,               \* which entry point this run exercises
    pc,               \* position inside the running function
    arg,              \* the argument the entry point was called with
    text,             \* parse_zone_file / flatten / add_default_name: the text
    ignore_invalid,   \* parse_zone_file: the lenient flag
    record_lines,     \* parse_lines: lines still to parse
    record_token,     \* parse_lines: tokens of the line handed to parse_line last
    json_zone_file,   \* parse_lines: the accumulator
    raised,           \* the exception that left the function, or NoException
    calls,            \* parse_line: calls made on the accumulator so far
    tokens,           \* serialize: the input token list; flatten: the token stream
    ll,               \* tokenize_line: characters still to scan
    ret,              \* tokenize_line: tokens produced; other functions: the result
    escape,           \* tokenize_line
    quote,            \* tokenize_line
    tokbuf,           \* tokenize_line
    capturing,        \* flatten
    captured,         \* flatten
    flattened         \* flatten

vars == <<op, pc, arg, text, ignore_invalid, record_lines,
          record_token, json_zone_file, raised, calls, tokens, ll, ret, escape, quote,
          tokbuf, capturing, captured, flattened>>

pipeVars == <<ignore_invalid, record_lines, record_token,
              json_zone_file, calls>>
tokVars  == <<ll, escape, quote, tokbuf>>
flatVars == <<capturing, captured, flattened>>

-----------------------------------------------------------------------------
(* Python string primitives.                                               *)

\* str.isspace() of one character of a byte string: space, \t, \n, \r, \f
\* and the vertical tab \x0b (the last string below holds that character)
isspace(c) == c \in {" ", "\t", "\n", "\r", "\f", ""}

isdigit(c) == c \in {"0", "1", "2", "3", "4", "5", "6", "7", "8", "9"}

\* c in s
Contains(s, c) == \E i \in 1..Len(s) : s[i] = c

\* index of the first c in s (s holds one)
IndexOf(s, c) == CHOOSE i \in 1..Len(s) : s[i] = c /\ \A j \in 1..(i - 1) : s[j] # c

\* s.split(c): always at least one piece
RECURSIVE split(_, _)
split(s, c) ==
    IF ~Contains(s, c) THEN <<s>>
    ELSE LET i == IndexOf(s, c)
         IN  <<SubSeq(s, 1, i - 1)>> \o split(SubSeq(s, i + 1, Len(s)), c)

\* sep.join(parts)
RECURSIVE join(_, _)
join(parts, sep) ==
    IF Len(parts) = 0 THEN <<>>
    ELSE IF Len(parts) = 1 THEN parts[1]
    ELSE parts[1] \o sep \o join(Tail(parts), sep)

\* s.lstrip(c), s.rstrip(c), s.strip(c)
RECURSIVE lstrip(_, _)
lstrip(s, c) == IF Len(s) > 0 /\ s[1] = c THEN lstrip(Tail(s), c) ELSE s

RECURSIVE rstrip(_, _)
rstrip(s, c) ==
    IF Len(s) > 0 /\ s[Len(s)] = c THEN rstrip(SubSeq(s, 1, Len(s) - 1), c) ELSE s

strip(s, c) == rstrip(lstrip(s, c), c)

\* s.replace(a, b) for a single character a and a string b
RECURSIVE replace(_, _, _)
replace(s, a, b) ==
    IF Len(s) = 0 THEN <<>>
    ELSE (IF s[1] = a THEN b ELSE <<s[1]>>) \o replace(Tail(s), a, b)

\* filter(lambda x: len(x) > 0, parts)
RECURSIVE nonempty(_)
nonempty(parts) ==
    IF Len(parts) = 0 THEN <<>>
    ELSE (IF Len(parts[1]) > 0 THEN <<parts[1]>> ELSE <<>>) \o nonempty(Tail(parts))

\* int(s) of CPython 2.7: whitespace around the number and between the sign
\* and the digits is skipped, then decimal digits must follow
RECURSIVE lstripws(_)
lstripws(s) == IF Len(s) > 0 /\ isspace(s[1]) THEN lstripws(Tail(s)) ELSE s

RECURSIVE rstripws(_)
rstripws(s) ==
    IF Len(s) > 0 /\ isspace(s[Len(s)]) THEN rstripws(SubSeq(s, 1, Len(s) - 1)) ELSE s

IntBody(s) ==
    LET u == rstripws(lstripws(s))
    IN  IF Len(u) > 0 /\ u[1] \in {"+", "-"} THEN lstripws(Tail(u)) ELSE u

IntSign(s) == LET u == lstripws(s) IN IF Len(u) > 0 /\ u[1] = "-" THEN -1 ELSE 1

IsInt(s) == LET b == IntBody(s) IN Len(b) > 0 /\ \A i \in 1..Len(b) : isdigit(b[i])

DigitVal(c) ==
    CASE c = "0" -> 0 [] c = "1" -> 1 [] c = "2" -> 2 [] c = "3" -> 3 [] c = "4" -> 4
      [] c = "5" -> 5 [] c = "6" -> 6 [] c = "7" -> 7 [] c = "8" -> 8 [] c = "9" -> 9

RECURSIVE DigitsVal(_)
DigitsVal(b) ==
    IF Len(b) = 0 THEN 0 ELSE 10 * DigitsVal(SubSeq(b, 1, Len(b) - 1)) + DigitVal(b[Len(b)])

\* the digits without leading zeros
IntCanon(b) == IF Len(lstrip(b, "0")) = 0 THEN <<"0">> ELSE lstrip(b, "0")

\* the value of int(s) where IsInt(s).  Python integers are unbounded: a
\* value of up to nine digits is an Integer here, a longer one is kept as its
\* digits and sign.
int(s) ==
    IF Len(IntCanon(IntBody(s))) <= 9
    THEN IntSign(s) * DigitsVal(IntCanon(IntBody(s)))
    ELSE [long |-> IntCanon(IntBody(s)), negative |-> IntSign(s) = -1]

-----------------------------------------------------------------------------
(* tokenize_line: one iteration of the scanning loop, and the whole scan.   *)

TokState0 == [ret |-> <<>>, escape |-> FALSE, quote |-> FALSE, tokbuf |-> <<>>,
              stop |-> FALSE]

\* the body of `while len(ll) > 0` for the popped character c
TokStep(st, c) ==
    IF isspace(c) THEN
        IF ~st.quote /\ ~st.escape THEN
            [st EXCEPT !.ret = IF Len(st.tokbuf) > 0 THEN Append(@, st.tokbuf) ELSE @,
                       !.tokbuf = <<>>]
        ELSE IF st.quote THEN
            [st EXCEPT !.tokbuf = Append(@, c)]
        ELSE
            [st EXCEPT !.tokbuf = Append(@, c), !.escape = FALSE]
    ELSE IF c = "\\" THEN
        [st EXCEPT !.escape = TRUE]
    ELSE IF c = "\"" /\ ~st.escape THEN
        IF st.quote
        THEN [st EXCEPT !.ret = Append(@, st.tokbuf), !.tokbuf = <<>>, !.quote = FALSE]
        ELSE [st EXCEPT !.quote = TRUE]
    ELSE IF c = ";" /\ ~st.escape THEN
        [st EXCEPT !.ret = Append(@, st.tokbuf), !.tokbuf = <<>>, !.stop = TRUE]
    ELSE
        [st EXCEPT !.tokbuf = Append(@, c), !.escape = FALSE]

\* the flush after the loop
TokFinish(st) ==
    IF Len(strip(strip(st.tokbuf, " "), "\n")) > 0 THEN Append(st.ret, st.tokbuf)
    ELSE st.ret

RECURSIVE TokScan(_, _)
TokScan(st, s) ==
    IF Len(s) = 0 \/ st.stop THEN st ELSE TokScan(TokStep(st, s[1]), Tail(s))

tokenize_line(line) == TokFinish(TokScan(TokState0, line))

-----------------------------------------------------------------------------
(* serialize                                                               *)

serialize_token(tok) ==
    LET q == IF Contains(tok, " ") THEN <<"\"">> \o tok \o <<"\"">> ELSE tok
    IN  IF Contains(q, ";") THEN replace(q, ";", <<"\\", ";">>) ELSE q

serialize(toks) == join([i \in 1..Len(toks) |-> serialize_token(toks[i])], <<" ">>)

-----------------------------------------------------------------------------
(* remove_comments, flatten, add_default_name                              *)

\* the loop of remove_comments over the split lines
RECURSIVE remove_comments_lines(_)
remove_comments_lines(lines) ==
    IF Len(lines) = 0 THEN <<>>
    ELSE (IF Len(lines[1]) = 0 THEN <<>>
          ELSE <<serialize(tokenize_line(lines[1]))>>)
         \o remove_comments_lines(Tail(lines))

remove_comments(t) == join(remove_comments_lines(split(t, "\n")), <<"\n">>)

\* flatten, first loop: the token stream, '' marking each line's end
RECURSIVE flatten_tokens(_)
flatten_tokens(lines) ==
    IF Len(lines) = 0 THEN <<>>
    ELSE (IF Len(lines[1]) = 0 THEN <<>>
          ELSE nonempty(split(replace(lines[1], "\t", <<" ">>), " ")) \o << <<>> >>)
         \o flatten_tokens(Tail(lines))

FlatState0 == [capturing |-> FALSE, captured |-> <<>>, flattened |-> <<>>]

startswith(s, c) == Len(s) > 0 /\ s[1] = c
endswith(s, c) == Len(s) > 0 /\ s[Len(s)] = c

\* FlatStep with a plausible slip: the end-of-line sentinel ends a group and
\* flushes it even while capturing
FlatStep_EolEndsGroup(st, tok) ==
    IF Len(tok) = 0 THEN
        IF Len(st.captured) > 0
        THEN [st EXCEPT !.flattened = Append(@, join(st.captured, <<" ">>)),
                        !.captured = <<>>, !.capturing = FALSE]
        ELSE [st EXCEPT !.capturing = FALSE]
    ELSE
        LET opens  == startswith(tok, "(")
            tok1   == IF opens THEN lstrip(tok, "(") ELSE tok
            cap1   == opens \/ st.capturing
            closes == cap1 /\ endswith(tok1, ")")
            tok2   == IF closes THEN rstrip(tok1, ")") ELSE tok1
        IN  [st EXCEPT !.capturing = cap1 /\ ~closes,
                       !.captured = Append(@, tok2)]

\* flatten, second loop: the body of `while len(tokens) > 0` for the popped token
FlatStep(st, tok) ==
    IF ~st.capturing /\ Len(tok) = 0 THEN
        IF Len(st.captured) > 0
        THEN [st EXCEPT !.flattened = Append(@, join(st.captured, <<" ">>)),
                        !.captured = <<>>]
        ELSE st
    ELSE
        LET opens  == startswith(tok, "(")
            tok1   == IF opens THEN lstrip(tok, "(") ELSE tok
            cap1   == opens \/ st.capturing
            closes == cap1 /\ endswith(tok1, ")")
            tok2   == IF closes THEN rstrip(tok1, ")") ELSE tok1
        IN  [st EXCEPT !.capturing = cap1 /\ ~closes,
                       !.captured = Append(@, tok2)]

RECURSIVE FlatScan(_, _)
FlatScan(st, toks) ==
    IF Len(toks) = 0 THEN st ELSE FlatScan(FlatStep(st, toks[1]), Tail(toks))

flatten(t) ==
    join(FlatScan(FlatState0, flatten_tokens(split(t, "\n"))).flattened, <<"\n">>)

-----------------------------------------------------------------------------
(* The record-type vocabulary and the argparse parser built by make_parser. *)

\* configs.SUPPORTED_RECORDS, as listed in the module docstring
SUPPORTED_RECORDS ==
    {"$ORIGIN", "$TTL", "SOA", "NS", "A", "AAAA", "CNAME", "MX", "PTR", "TXT",
     "SRV", "SPF", "URI"}

\* the characters of a record-type name
Chars(n) ==
    CASE n = "$ORIGIN" -> <<"$", "O", "R", "I", "G", "I", "N">>
      [] n = "$TTL"    -> <<"$", "T", "T", "L">>
      [] n = "SOA"     -> <<"S", "O", "A">>
      [] n = "NS"      -> <<"N", "S">>
      [] n = "A"       -> <<"A">>
      [] n = "AAAA"    -> <<"A", "A", "A", "A">>
      [] n = "CNAME"   -> <<"C", "N", "A", "M", "E">>
      [] n = "MX"      -> <<"M", "X">>
      [] n = "PTR"     -> <<"P", "T", "R">>
      [] n = "TXT"     -> <<"T", "X", "T">>
      [] n = "SRV"     -> <<"S", "R", "V">>
      [] n = "SPF"     -> <<"S", "P", "F">>
      [] n = "URI"     -> <<"U", "R", "I">>

\* tok in SUPPORTED_RECORDS
InSupported(tok) == \E n \in SUPPORTED_RECORDS : Chars(n) = tok

\* record_type.lower()
lower(n) ==
    CASE n = "$ORIGIN" -> "$origin" [] n = "$TTL" -> "$ttl" [] n = "SOA" -> "soa"
      [] n = "NS" -> "ns" [] n = "A" -> "a" [] n = "AAAA" -> "aaaa"
      [] n = "CNAME" -> "cname" [] n = "MX" -> "mx" [] n = "PTR" -> "ptr"
      [] n = "TXT" -> "txt" [] n = "SRV" -> "srv" [] n = "SPF" -> "spf"
      [] n = "URI" -> "uri"

Arg(n, t) == [name |-> n, type |-> t]

\* make_parser: the type-specific arguments of each RR subparser
args_and_types(rec_type) ==
    CASE rec_type = "SOA" ->
            <<Arg("mname", "str"), Arg("rname", "str"), Arg("serial", "int"),
              Arg("refresh", "int"), Arg("retry", "int"), Arg("expire", "int"),
              Arg("minimum", "int")>>
      [] rec_type = "NS"    -> <<Arg("host", "str")>>
      [] rec_type = "A"     -> <<Arg("ip", "str")>>
      [] rec_type = "AAAA"  -> <<Arg("ip", "str")>>
      [] rec_type = "CNAME" -> <<Arg("alias", "str")>>
      [] rec_type = "MX"    -> <<Arg("preference", "str"), Arg("host", "str")>>
      [] rec_type = "TXT"   -> <<Arg("txt", "str")>>
      [] rec_type = "PTR"   -> <<Arg("host", "str")>>
      [] rec_type = "SRV"   ->
            <<Arg("priority", "int"), Arg("weight", "int"), Arg("port", "int"),
              Arg("target", "str")>>
      [] rec_type = "SPF"   -> <<Arg("data", "str")>>
      [] rec_type = "URI"   ->
            <<Arg("priority", "int"), Arg("weight", "int"), Arg("target", "str")>>

\* make_rr_subparser: name, ttl (nargs='?'), class, the type token, then the RDATA
make_rr_subparser(rec_type) ==
    <<Arg("name", "str"), Arg("ttl", "int?"), Arg("class", "str"),
      Arg(rec_type, "str")>> \o args_and_types(rec_type)

\* make_parser: the subparser commands and the positionals of each
Subparsers ==
    {"$ORIGIN", "$TTL", "SOA", "NS", "A", "AAAA", "CNAME", "MX", "TXT", "PTR",
     "SRV", "SPF", "URI"}

make_parser(cmd) ==
    CASE cmd = "$ORIGIN" -> <<Arg("$ORIGIN", "str")>>
      [] cmd = "$TTL"    -> <<Arg("$TTL", "int")>>
      [] OTHER           -> make_rr_subparser(cmd)

\* argparse _negative_number_matcher, '^-\d+$|^-\d*\.\d+$', without its `$`
NegativeNumberCore(u) ==
    /\ Len(u) >= 2
    /\ u[1] = "-"
    /\ \/ \A i \in 2..Len(u) : isdigit(u[i])
       \/ \E p \in 2..(Len(u) - 1) :
             u[p] = "." /\ \A i \in (2..Len(u)) \ {p} : isdigit(u[i])

\* `$` matches at the end and before a newline that ends the string
negative_number_matcher(s) ==
    \/ NegativeNumberCore(s)
    \/ Len(s) > 0 /\ s[Len(s)] = "\n" /\ NegativeNumberCore(SubSeq(s, 1, Len(s) - 1))

\* arg_string.split('=', 1)[0]
BeforeEq(s) == IF Contains(s, "=") THEN SubSeq(s, 1, IndexOf(s, "=") - 1) ELSE s

IsPrefix(p, s) == Len(p) <= Len(s) /\ SubSeq(s, 1, Len(p)) = p

\* argparse: the string selects the -h/--help option every parser has,
\* written out, abbreviated, or with an explicit argument attached
matches_help(s) ==
    /\ Len(s) > 1
    /\ s[1] = "-"
    /\ IF s[2] = "-" THEN IsPrefix(BeforeEq(s), <<"-", "-", "h", "e", "l", "p">>)
       ELSE s[2] = "h"

\* argparse _parse_optional: the argument string is taken for an option.  A
\* string that starts with "-" is positional only when it is "-" alone, looks
\* like a negative number, or holds a space.
parse_optional(s) ==
    /\ Len(s) > 1
    /\ s[1] = "-"
    /\ \/ matches_help(s)
       \/ ~negative_number_matcher(s) /\ ~Contains(s, " ")

\* argparse arg_strings_pattern: "O" for an option string, "A" for an
\* argument, "-" for the first "--", after which every string is an argument
arg_strings_pattern(args) ==
    LET dd == {i \in 1..Len(args) : args[i] = <<"-", "-">>}
        d  == IF dd = {} THEN Len(args) + 1 ELSE CHOOSE i \in dd : \A j \in dd : i <= j
    IN  [i \in 1..Len(args) |->
            IF i = d THEN "-"
            ELSE IF i > d THEN "A"
            ELSE IF parse_optional(args[i]) THEN "O" ELSE "A"]

\* the number of leading pattern characters before the first "O"
SegLen(pat) ==
    IF \E i \in 1..Len(pat) : pat[i] = "O"
    THEN (CHOOSE i \in 1..Len(pat) : pat[i] = "O" /\ \A j \in 1..(i - 1) : pat[j] # "O") - 1
    ELSE Len(pat)

NumArgs(pat) == Cardinality({j \in 1..Len(pat) : pat[j] = "A"})

\* the position of the m-th "A" of the pattern
NthArg(pat, m) ==
    CHOOSE j \in 1..Len(pat) :
        pat[j] = "A" /\ Cardinality({x \in 1..j : pat[x] = "A"}) = m

\* how many of the first i positionals need an argument string (ttl, with
\* nargs='?', does not)
Required(acts, i) == Cardinality({j \in 1..i : acts[j].type # "int?"})

\* argparse _match_arguments_partial: the longest run of leading positionals
\* whose patterns `(-*A-*)`, `(-*A?-*)` match a prefix of pat
match_arguments_partial(acts, pat) ==
    CHOOSE i \in 0..Len(acts) :
        /\ Required(acts, i) <= NumArgs(pat)
        /\ \A m \in (i + 1)..Len(acts) : Required(acts, m) > NumArgs(pat)

\* the greedy match: per matched positional the position of its argument
\* string in pat (0 = none); the optional ttl takes a string only when one is
\* left over for it (take)
match_positions(acts, pat, i, take) ==
    [j \in 1..i |->
        IF acts[j].type = "int?" THEN (IF take THEN NthArg(pat, j) ELSE 0)
        ELSE NthArg(pat, IF take THEN j
                         ELSE j - Cardinality({x \in 1..j : acts[x].type = "int?"}))]

\* the pattern characters the match takes in: up to the last string used,
\* and the "--" right after it
match_length(pat, at) ==
    LET e == IF DOMAIN at = {} THEN 0
             ELSE CHOOSE x \in {at[j] : j \in DOMAIN at} :
                     \A y \in {at[j] : j \in DOMAIN at} : y <= x
    IN  IF e = 0 THEN 0
        ELSE IF e < Len(pat) /\ pat[e + 1] = "-" THEN e + 1 ELSE e

\* the Python value [] (no string has an element of two characters)
EmptyList == <<"[]">>

\* argparse _get_values removes the first "--" among the strings of a
\* positional.  When the string at p is itself "--" (an argument, since it
\* comes after the first "--") and that first "--" is not among the strings
\* of the same positional, the string itself is what is removed.
Dropped(seg, pat, p) == seg[p] = <<"-", "-">> /\ ~(p = 2 /\ pat[1] = "-")

\* the positional j got no value: no string, or ttl's only string was removed
NoValue(acts, seg, pat, at, j) ==
    \/ at[j] = 0
    \/ acts[j].type = "int?" /\ Dropped(seg, pat, at[j])

\* argparse _get_values / _get_value for the positional j
get_values(acts, seg, pat, at, j) ==
    IF Dropped(seg, pat, at[j]) THEN EmptyList
    ELSE IF acts[j].type = "str" THEN seg[at[j]]
    ELSE IF IsInt(seg[at[j]]) THEN int(seg[at[j]]) ELSE <<>>

\* argparse consume_positionals on the strings seg with pattern pat: the
\* number of positionals consumed, whether a type conversion failed, the
\* values, the destinations left None, and the number of strings taken in
consumed_positionals(acts, seg, pat, i, at) ==
    [count |-> i,
     bad   |-> \E j \in 1..i :
                  /\ at[j] # 0
                  /\ acts[j].type # "str"
                  /\ ~Dropped(seg, pat, at[j])
                  /\ ~IsInt(seg[at[j]]),
     vals  |-> [k \in {acts[j].name : j \in {x \in 1..i : ~NoValue(acts, seg, pat, at, x)}} |->
                  get_values(acts, seg, pat, at, CHOOSE x \in 1..i : acts[x].name = k)],
     none  |-> {acts[j].name : j \in {x \in 1..i : NoValue(acts, seg, pat, at, x)}},
     used  |-> match_length(pat, at)]

consume_matched(acts, seg, pat, i) ==
    consumed_positionals(acts, seg, pat, i,
        match_positions(acts, pat, i, NumArgs(pat) > Required(acts, i)))

consume_positionals(acts, seg, pat) ==
    consume_matched(acts, seg, pat, match_arguments_partial(acts, pat))

ParseFailed == [error |-> TRUE, vals |-> <<>>, none |-> {}, unmatched |-> <<>>]

\* argparse _parse_known_args for one subparser: the positionals consume the
\* strings between the option strings, what they leave goes to the extras;
\* an unknown option string goes to the extras, -h/--help exits; positionals
\* left at the end are "too few arguments".  s is the length of the run of
\* strings before the next option string, m what consume_positionals makes
\* of it.
RECURSIVE parse_args_loop(_, _, _, _)
parse_args_consumed(acts, rest, pat, acc, s, m) ==
    IF m.bad THEN ParseFailed
    ELSE IF s = Len(rest) THEN
        IF m.count < Len(acts) THEN ParseFailed
        ELSE [error |-> FALSE, vals |-> acc.vals @@ m.vals,
              none |-> acc.none \cup m.none,
              unmatched |-> acc.unmatched \o SubSeq(rest, m.used + 1, s)]
    ELSE IF matches_help(rest[s + 1]) THEN ParseFailed
    ELSE parse_args_loop(SubSeq(acts, m.count + 1, Len(acts)),
                         SubSeq(rest, s + 2, Len(rest)), SubSeq(pat, s + 2, Len(pat)),
                         [error |-> FALSE, vals |-> acc.vals @@ m.vals,
                          none |-> acc.none \cup m.none,
                          unmatched |-> acc.unmatched \o SubSeq(rest, m.used + 1, s + 1)])

parse_args_segment(acts, rest, pat, acc, s) ==
    parse_args_consumed(acts, rest, pat, acc, s,
                        consume_positionals(acts, SubSeq(rest, 1, s), SubSeq(pat, 1, s)))

parse_args_loop(acts, rest, pat, acc) ==
    parse_args_segment(acts, rest, pat, acc, SegLen(pat))

\* the number of option strings at the head of the pattern
LeadingOptions(pat) ==
    IF \E i \in 1..Len(pat) : pat[i] # "O"
    THEN (CHOOSE i \in 1..Len(pat) : pat[i] # "O" /\ \A j \in 1..(i - 1) : pat[j] = "O") - 1
    ELSE Len(pat)

\* the main parser, lead being the number of option strings before the first
\* argument: -h/--help among them exits, the others go to the extras; the
\* first argument must name a subparser ("--" does not, nor does nothing at
\* all: "too few arguments"), which parses every string after it and adds
\* its extras to the main parser's
parse_known_args_main(args, pat, lead) ==
    IF \E i \in 1..lead : matches_help(args[i]) THEN ParseFailed
    ELSE IF lead = Len(args) THEN ParseFailed
    ELSE IF pat[lead + 1] = "-" THEN ParseFailed
    ELSE IF ~\E c \in Subparsers : Chars(c) = args[lead + 1] THEN ParseFailed
    ELSE parse_args_loop(make_parser(CHOOSE c \in Subparsers : Chars(c) = args[lead + 1]),
                         SubSeq(args, lead + 2, Len(args)),
                         arg_strings_pattern(SubSeq(args, lead + 2, Len(args))),
                         [error |-> FALSE, vals |-> <<>>, none |-> {},
                          unmatched |-> SubSeq(args, 1, lead)])

\* parser.parse_known_args(args): [error, vals, none, unmatched]; `none` holds
\* the destinations left at their default None
parse_known_args(args) ==
    parse_known_args_main(args, arg_strings_pattern(args),
                          LeadingOptions(arg_strings_pattern(args)))

-----------------------------------------------------------------------------
(* parse_line                                                              *)

NoException == "NoException"

\* the default class token "IN"
DEFAULT_CLASS == <<"I", "N">>

\* a Python list with x inserted before 0-based position i
insert(l, i, x) == SubSeq(l, 1, i) \o <<x>> \o SubSeq(l, i + 1, Len(l))

\* MatchRecordType with a plausible slip: TTL and class are left in the order
\* they were written
MatchRecordType_NoSwap(rtok) ==
    LET tok(i) == rtok[i + 1]
        n == Len(rtok)
        out(rt, inferred) ==
            [record_token |-> rt, class_inferred |-> inferred, raised |-> NoException]
    IN  IF n >= 2 /\ InSupported(tok(1)) THEN
            out(insert(<<tok(1)>> \o rtok, 2, DEFAULT_CLASS), TRUE)
        ELSE IF n >= 3 /\ InSupported(tok(2)) THEN
            LET rt == <<tok(2)>> \o rtok
            IN  IF Len(rt[3]) > 0 /\ isdigit(rt[3][1])
                THEN out(insert(rt, 3, DEFAULT_CLASS), TRUE)
                ELSE out(rt, FALSE)
        ELSE IF n >= 4 /\ InSupported(tok(3)) THEN
            out(<<tok(3)>> \o rtok, FALSE)
        ELSE out(rtok, FALSE)

\* MatchRecordType with a plausible slip: the class inserted after a TTL is
\* not marked as inferred
MatchRecordType_NoHint(rtok) ==
    LET tok(i) == rtok[i + 1]
        n == Len(rtok)
        out(rt, inferred) ==
            [record_token |-> rt, class_inferred |-> inferred, raised |-> NoException]
    IN  IF n >= 2 /\ InSupported(tok(1)) THEN
            out(insert(<<tok(1)>> \o rtok, 2, DEFAULT_CLASS), TRUE)
        ELSE IF n >= 3 /\ InSupported(tok(2)) THEN
            LET rt == <<tok(2)>> \o rtok
            IN  IF Len(rt[3]) > 0 /\ isdigit(rt[3][1])
                THEN out(insert(rt, 3, DEFAULT_CLASS), FALSE)
                ELSE out(rt, FALSE)
        ELSE IF n >= 4 /\ InSupported(tok(3)) THEN
            LET rt == <<tok(3)>> \o rtok
            IN  IF Len(rt[3]) > 0 /\ ~isdigit(rt[3][1])
                THEN out([rt EXCEPT ![3] = rt[4], ![4] = rt[3]], FALSE)
                ELSE out(rt, FALSE)
        ELSE out(rtok, FALSE)

\* parse_line, "match parser to record type": the token list handed to
\* argparse and whether the class was inferred.  tok(i) is record_token[i]
\* in the source's 0-based indexing.
MatchRecordType(rtok) ==
    LET tok(i) == rtok[i + 1]
        n == Len(rtok)
        out(rt, inferred) ==
            [record_token |-> rt, class_inferred |-> inferred, raised |-> NoException]
        \* rtok[2][0] of an empty token
        IndexError == [record_token |-> rtok, class_inferred |-> FALSE,
                       raised |-> "IndexError"]
    IN  IF n >= 2 /\ InSupported(tok(1)) THEN
            \* RR has no TTL or CLASS
            out(insert(<<tok(1)>> \o rtok, 2, DEFAULT_CLASS), TRUE)
        ELSE IF n >= 3 /\ InSupported(tok(2)) THEN
            \* RR has a TTL or CLASS
            LET rt == <<tok(2)>> \o rtok
            IN  IF Len(rt[3]) = 0 THEN IndexError
                ELSE IF isdigit(rt[3][1])
                THEN out(insert(rt, 3, DEFAULT_CLASS), TRUE)
                ELSE out(rt, FALSE)
        ELSE IF n >= 4 /\ InSupported(tok(3)) THEN
            \* RR has a TTL and CLASS, in either order
            LET rt == <<tok(3)>> \o rtok
            IN  IF Len(rt[3]) = 0 THEN IndexError
                ELSE IF ~isdigit(rt[3][1])
                THEN out([rt EXCEPT ![3] = rt[4], ![4] = rt[3]], FALSE)
                ELSE out(rt, FALSE)
        ELSE out(rtok, FALSE)

\* the keys of record_dict that name the record type
RecordTypeKeys(rr) ==
    {key \in (DOMAIN rr.vals) \cup rr.none :
        /\ key \in SUPPORTED_RECORDS
        /\ \/ startswith(Chars(key), "$")
           \/ key \in DOMAIN rr.vals /\ key # "$TTL" /\ rr.vals[key] = Chars(key)}

\* d without key k
del(d, k) == [x \in (DOMAIN d) \ {k} |-> d[x]]

\* d with d[k] = v
set(d, k, v) == (k :> v) @@ d

\* parsed_records[k].append(v) on a defaultdict(list)
append(d, k, v) == set(d, k, IF k \in DOMAIN d THEN Append(d[k], v) ELSE <<v>>)

\* record_dict.get('$ORIGIN', parsed_records.get('$ORIGIN', None)): <<>> is None
current_origin(record_dict, parsed_records) ==
    IF "$ORIGIN" \in DOMAIN record_dict THEN <<record_dict["$ORIGIN"]>>
    ELSE IF "$ORIGIN" \in DOMAIN parsed_records THEN <<parsed_records["$ORIGIN"]>>
    ELSE <<>>

\* what parse_line gives back: the exception raised (or NoException), the
\* line it carries (only InvalidLineException is raised with the line; the
\* others carry a message of their own), and the records afterwards
Result(e, line, parsed_records) ==
    [raised |-> e,
     line |-> IF e = "InvalidLineException" THEN line ELSE <<>>,
     parsed_records |-> parsed_records]

\* parse_line, "if len(record_dict) > 0": the record goes into parsed_records
parse_line_store(line, record_type, record_dict, parsed_records) ==
    IF DOMAIN record_dict = {} THEN Result(NoException, line, parsed_records)
    ELSE IF startswith(Chars(record_type), "$") THEN
        IF record_type \notin DOMAIN record_dict
        THEN Result("KeyError", line, parsed_records)
        ELSE Result(NoException, line,
                    set(parsed_records, lower(record_type), record_dict[record_type]))
    ELSE Result(NoException, line,
                append(parsed_records, lower(record_type), record_dict))

\* parse_line, the hint that no class was given
parse_line_hint(line, class_inferred, record_type, record_dict, parsed_records) ==
    parse_line_store(line, record_type,
                     IF class_inferred THEN set(record_dict, "_missing_class", TRUE)
                     ELSE record_dict,
                     parsed_records)

\* parse_line, "special record-specific fix-ups": origin is current_origin
parse_line_fixups(line, class_inferred, record_type, record_dict, origin, parsed_records) ==
    IF record_type # "PTR"
    THEN parse_line_hint(line, class_inferred, record_type, record_dict, parsed_records)
    ELSE IF origin = <<>> \/ record_dict["name"] = EmptyList
    THEN Result("TypeError", line, parsed_records)
    ELSE parse_line_hint(line, class_inferred, record_type,
                         set(record_dict, "fullname",
                             record_dict["name"] \o <<".">> \o origin[1]),
                         parsed_records)

\* parse_line, after the record type is known: the matched type token is
\* deleted (the None fields are already apart, in rr.none)
parse_line_clean(line, class_inferred, record_type, record_dict, parsed_records) ==
    parse_line_fixups(line, class_inferred, record_type, record_dict,
                      current_origin(record_dict, parsed_records), parsed_records)

\* parse_line, "what kind of record?"
parse_line_record_type(line, class_inferred, rr, parsed_records) ==
    IF RecordTypeKeys(rr) = {} THEN Result("AssertionError", line, parsed_records)
    ELSE parse_line_clean(line, class_inferred,
                          CHOOSE key \in RecordTypeKeys(rr) : TRUE,
                          IF \E key \in RecordTypeKeys(rr) :
                                /\ key \in DOMAIN rr.vals /\ key # "$TTL"
                                /\ rr.vals[key] = Chars(key)
                          THEN del(rr.vals, CHOOSE key \in RecordTypeKeys(rr) : TRUE)
                          ELSE rr.vals,
                          parsed_records)

\* parse_line, the try block around parse_known_args
parse_line_dispatch(line, class_inferred, rr, parsed_records) ==
    IF rr.error \/ Len(rr.unmatched) # 0
    THEN Result("InvalidLineException", line, parsed_records)
    ELSE parse_line_record_type(line, class_inferred, rr, parsed_records)

parse_line_matched(line, m, parsed_records) ==
    IF m.raised # NoException THEN Result(m.raised, line, parsed_records)
    ELSE parse_line_dispatch(line, m.class_inferred,
                             parse_known_args(m.record_token), parsed_records)

\* parse_line(parser, record_token, parsed_records)
parse_line(rtok, parsed_records) ==
    parse_line_matched(join(rtok, <<" ">>), MatchRecordType(rtok), parsed_records)

-----------------------------------------------------------------------------
(* add_default_name, parse_lines, parse_zone_file as functions of the text  *)

\* the body of add_default_name's loop for the tokens of one line
default_name_tokens(toks) ==
    IF InSupported(toks[1]) /\ ~startswith(toks[1], "$") THEN <<<<"@">>>> \o toks
    ELSE toks

RECURSIVE add_default_name_lines(_)
add_default_name_lines(lines) ==
    IF Len(lines) = 0 THEN <<>>
    ELSE LET toks == tokenize_line(lines[1])
         IN  (IF Len(toks) = 0 THEN <<>>
              ELSE <<serialize(default_name_tokens(toks))>>)
             \o add_default_name_lines(Tail(lines))

add_default_name(t) == join(add_default_name_lines(split(t, "\n")), <<"\n">>)

\* the exception parse_lines lets out of one iteration, if any
Escapes(exc, lenient) ==
    exc # NoException /\ ~(exc = "InvalidLineException" /\ lenient)

\* one iteration of parse_lines' loop on the running result, r being what
\* parse_line gave for the line
parse_lines_merge(acc, r, lenient) ==
    IF acc.raised # NoException THEN acc
    ELSE IF Escapes(r.raised, lenient)
    THEN [acc EXCEPT !.raised = r.raised, !.line = r.line]
    ELSE [acc EXCEPT !.json_zone_file = r.parsed_records]

parse_lines_step(acc, line, lenient) ==
    parse_lines_merge(acc, parse_line(tokenize_line(line), acc.json_zone_file),
                      lenient)

RECURSIVE parse_lines_loop(_, _, _)
parse_lines_loop(acc, lines, lenient) ==
    IF Len(lines) = 0 THEN acc
    ELSE parse_lines_loop(parse_lines_step(acc, lines[1], lenient),
                          Tail(lines), lenient)

\* parse_lines(text, ignore_invalid): [raised, line, json_zone_file]
parse_lines(t, lenient) ==
    parse_lines_loop([raised |-> NoException, line |-> <<>>, json_zone_file |-> <<>>],
                     split(t, "\n"), lenient)

parse_zone_file(t, lenient) ==
    parse_lines(add_default_name(flatten(remove_comments(t))), lenient)

-----------------------------------------------------------------------------
(* Inputs.                                                                 *)

MaxLines == 3

\* the sequences over S of length at most n
RECURSIVE SeqsUpTo(_, _)
SeqsUpTo(S, n) ==
    IF n = 0 THEN {<<>>}
    ELSE LET shorter == SeqsUpTo(S, n - 1)
         IN  shorter \cup {Append(q, x) : q \in {r \in shorter : Len(r) = n - 1}, x \in S}

Line(toks) == join(toks, <<" ">>)

\* physical lines a zonefile is made of
ZoneLines ==
    {Line(<<Chars("$ORIGIN"), <<"e">>>>),             \* $ORIGIN e
     Line(<<<<"1">>, Chars("PTR"), <<"h">>>>),        \* 1 PTR h
     Line(<<<<"w">>, Chars("A"), <<"1">>>>),          \* w A 1
     Line(<<<<"w">>, <<"7">>, Chars("A")>>),          \* w 7 A   (RDATA missing)
     Line(<<<<"w">>, Chars("A")>>),                   \* w A     (RDATA missing)
     Line(<<Chars("NS"), <<"h">>>>),                  \* NS h    (name omitted)
     <<";", "c">>,                                    \* a comment line
     <<>>}                                            \* a blank line

ZoneTexts == {join(ls, <<"\n">>) : ls \in SeqsUpTo(ZoneLines, MaxLines)}

-----------------------------------------------------------------------------
(* State shared by the entry points.                                       *)

Raised(type, line) == [type |-> type, line |-> line]
NotRaised == Raised(NoException, <<>>)

Idle ==
    /\ ignore_invalid = FALSE
    /\ record_lines = <<>>
    /\ record_token = <<>>
    /\ json_zone_file = <<>>
    /\ calls = 0

TokIdle == ll = <<>> /\ escape = FALSE /\ quote = FALSE /\ tokbuf = <<>>

FlatIdle == capturing = FALSE /\ captured = <<>> /\ flattened = <<>>

-----------------------------------------------------------------------------
(* parse_zone_file(text, ignore_invalid), one action per pipeline stage and *)
(* one per iteration of parse_lines' loop.                                 *)

Init ==
    /\ op = "parse_zone_file"
    /\ pc = "remove_comments"
    /\ arg \in ZoneTexts
    /\ text = arg
    /\ ignore_invalid \in BOOLEAN
    /\ record_lines = <<>>
    /\ record_token = <<>>
    /\ json_zone_file = <<>>
    /\ calls = 0
    /\ raised = NotRaised
    /\ tokens = <<>>
    /\ ret = <<>>
    /\ TokIdle
    /\ FlatIdle

RemoveComments ==
    /\ op = "parse_zone_file" /\ pc = "remove_comments"
    /\ text' = remove_comments(text)
    /\ pc' = "flatten"
    /\ UNCHANGED <<op, arg, pipeVars, raised, tokens, ret, tokVars, flatVars>>

Flatten ==
    /\ op = "parse_zone_file" /\ pc = "flatten"
    /\ text' = flatten(text)
    /\ pc' = "add_default_name"
    /\ UNCHANGED <<op, arg, pipeVars, raised, tokens, ret, tokVars, flatVars>>

AddDefaultName ==
    /\ op = "parse_zone_file" /\ pc = "add_default_name"
    /\ text' = add_default_name(text)
    /\ pc' = "parse_lines"
    /\ UNCHANGED <<op, arg, pipeVars, raised, tokens, ret, tokVars, flatVars>>

\* parse_lines up to its loop
ParseLines ==
    /\ op = "parse_zone_file" /\ pc = "parse_lines"
    /\ json_zone_file' = <<>>
    /\ record_lines' = split(text, "\n")
    /\ pc' = "parse_line"
    /\ UNCHANGED <<op, arg, text, ignore_invalid, record_token,
                   calls, raised, tokens, ret, tokVars, flatVars>>

\* the try/except around parse_line, r being what parse_line gave
ParseLineResult(r) ==
    IF Escapes(r.raised, ignore_invalid)
    THEN /\ raised' = Raised(r.raised, r.line)
         /\ pc' = "done"
         /\ UNCHANGED <<json_zone_file, record_lines>>
    ELSE /\ json_zone_file' = r.parsed_records
         /\ record_lines' = Tail(record_lines)
         /\ UNCHANGED <<raised, pc>>

\* one iteration of `for record_line in record_lines`
ParseLine ==
    /\ op = "parse_zone_file" /\ pc = "parse_line" /\ Len(record_lines) > 0
    /\ record_token' = tokenize_line(Head(record_lines))
    /\ ParseLineResult(parse_line(record_token', json_zone_file))
    /\ UNCHANGED <<op, arg, text, ignore_invalid, calls, tokens,
                   ret, tokVars, flatVars>>

\* return json_zone_file
Return ==
    /\ op = "parse_zone_file" /\ pc = "parse_line" /\ Len(record_lines) = 0
    /\ ret' = json_zone_file
    /\ pc' = "done"
    /\ UNCHANGED <<op, arg, text, pipeVars, raised, tokens, tokVars, flatVars>>

Next == RemoveComments \/ Flatten \/ AddDefaultName \/ ParseLines \/ ParseLine \/ Return

Spec == Init /\ [][Next]_vars

-----------------------------------------------------------------------------
(* tokenize_line(line), one action per iteration of its loop; the line is    *)
(* given, or is serialize(tokens) of a given token list.                    *)

MaxTokLen == 2
MaxTokens == 2
MaxLineLen == 4

\* token lists handed to serialize: no double quote, no backslash
TokenChars == {"a", " ", "\t", ";"}
TokenLists(n) == SeqsUpTo(SeqsUpTo(TokenChars, MaxTokLen), n)

\* lines handed to tokenize_line
LineChars == {"a", " ", "\\", "\"", ";"}
RawLines == SeqsUpTo(LineChars, MaxLineLen)

InitTokenize ==
    /\ \/ /\ op = "serialize"
          /\ pc = "serialize"
          /\ arg \in TokenLists(MaxTokens)
          /\ tokens = arg
          /\ text = <<>>
       \/ /\ op = "tokenize_line"
          /\ pc = "scan"
          /\ arg \in RawLines
          /\ tokens = <<>>
          /\ text = arg
    /\ ll = text
    /\ ret = <<>>
    /\ escape = FALSE /\ quote = FALSE /\ tokbuf = <<>>
    /\ raised = NotRaised
    /\ Idle
    /\ FlatIdle

\* line = serialize(tokens), then tokenize_line(line) is entered
Serialize ==
    /\ op = "serialize" /\ pc = "serialize"
    /\ text' = serialize(tokens)
    /\ ll' = text'
    /\ pc' = "scan"
    /\ UNCHANGED <<op, arg, pipeVars, raised, tokens, ret, escape, quote, tokbuf,
                   flatVars>>

\* c = ll.pop(0) and the loop body
TokenizeChar ==
    /\ op \in {"serialize", "tokenize_line"} /\ pc = "scan" /\ Len(ll) > 0
    /\ LET st == TokStep([ret |-> ret, escape |-> escape, quote |-> quote,
                          tokbuf |-> tokbuf, stop |-> FALSE], Head(ll))
       IN  /\ ret' = st.ret
           /\ escape' = st.escape
           /\ quote' = st.quote
           /\ tokbuf' = st.tokbuf
           /\ pc' = IF st.stop THEN "break" ELSE "scan"
    /\ ll' = Tail(ll)
    /\ UNCHANGED <<op, arg, text, pipeVars, raised, tokens, flatVars>>

\* the loop is left (input exhausted, or break at a comment): flush and return
TokenizeReturn ==
    /\ op \in {"serialize", "tokenize_line"}
    /\ (pc = "scan" /\ Len(ll) = 0) \/ pc = "break"
    /\ ret' = TokFinish([ret |-> ret, escape |-> escape, quote |-> quote,
                         tokbuf |-> tokbuf, stop |-> pc = "break"])
    /\ pc' = "done"
    /\ UNCHANGED <<op, arg, text, pipeVars, raised, tokens, tokVars, flatVars>>

NextTokenize == Serialize \/ TokenizeChar \/ TokenizeReturn

SpecTokenize == InitTokenize /\ [][NextTokenize]_vars

-----------------------------------------------------------------------------
(* flatten(text), one action per iteration of its second loop.              *)

MaxFlatLines == 3

\* physical lines of the text handed to flatten
FlatLines ==
    {<<"n", " ", "(", " ", "h">>,       \* n ( h
     <<"h", " ", ")">>,                 \* h )
     <<"n", " ", "(", "h">>,            \* n (h
     <<"h", ")">>,                      \* h)
     <<"n", " ", "h">>,                 \* n h
     <<"n", "\t", "h", " ", " ", "h">>, \* n<TAB>h  h
     <<"(", "h", ")">>,                 \* (h)
     <<>>}                              \* a blank line

FlatTexts == {join(ls, <<"\n">>) : ls \in SeqsUpTo(FlatLines, MaxFlatLines)}

InitFlatten ==
    /\ op = "flatten"
    /\ pc = "split"
    /\ arg \in FlatTexts
    /\ text = arg
    /\ tokens = <<>>
    /\ ret = <<>>
    /\ raised = NotRaised
    /\ Idle
    /\ TokIdle
    /\ FlatIdle

\* the first loop: the token stream
FlattenSplit ==
    /\ op = "flatten" /\ pc = "split"
    /\ tokens' = flatten_tokens(split(text, "\n"))
    /\ capturing' = FlatState0.capturing
    /\ captured' = FlatState0.captured
    /\ flattened' = FlatState0.flattened
    /\ pc' = "scan"
    /\ UNCHANGED <<op, arg, text, pipeVars, raised, ret, tokVars>>

\* tok = tokens.pop(0) and the loop body
FlattenToken ==
    /\ op = "flatten" /\ pc = "scan" /\ Len(tokens) > 0
    /\ LET st == FlatStep([capturing |-> capturing, captured |-> captured,
                           flattened |-> flattened], Head(tokens))
       IN  /\ capturing' = st.capturing
           /\ captured' = st.captured
           /\ flattened' = st.flattened
    /\ tokens' = Tail(tokens)
    /\ UNCHANGED <<op, pc, arg, text, pipeVars, raised, ret, tokVars>>

\* return "\n".join(flattened)
FlattenReturn ==
    /\ op = "flatten" /\ pc = "scan" /\ Len(tokens) = 0
    /\ ret' = join(flattened, <<"\n">>)
    /\ pc' = "done"
    /\ UNCHANGED <<op, arg, text, pipeVars, raised, tokens, tokVars, flatVars>>

NextFlatten == FlattenSplit \/ FlattenToken \/ FlattenReturn

SpecFlatten == InitFlatten /\ [][NextFlatten]_vars

-----------------------------------------------------------------------------
(* add_default_name(text), one action per iteration of its loop.            *)

MaxNameLines == 2

\* lines of the flattened text handed to add_default_name
NameLines ==
    {Line(<<Chars("A"), <<"7">>, DEFAULT_CLASS, Chars("A"), <<"1">>>>),  \* A 7 IN A 1
     Line(<<Chars("A"), <<"1">>>>),                                      \* A 1
     Line(<<<<"w">>, <<"7">>, DEFAULT_CLASS, Chars("A"), <<"1">>>>),     \* w 7 IN A 1
     Line(<<<<"w">>, Chars("A"), <<"1">>>>),                             \* w A 1
     Line(<<Chars("NS"), <<"h">>>>),                                     \* NS h
     Line(<<Chars("$TTL"), <<"7">>>>),                                   \* $TTL 7
     <<>>}                                                               \* a blank line

NameTexts == {join(ls, <<"\n">>) : ls \in SeqsUpTo(NameLines, MaxNameLines)}

InitDefaultName ==
    /\ op = "add_default_name"
    /\ pc = "split"
    /\ arg \in NameTexts
    /\ text = arg
    /\ tokens = <<>>
    /\ ret = <<>>
    /\ raised = NotRaised
    /\ Idle
    /\ TokIdle
    /\ FlatIdle

\* lines = text.split("\n")
DefaultNameSplit ==
    /\ op = "add_default_name" /\ pc = "split"
    /\ record_lines' = split(text, "\n")
    /\ ret' = <<>>
    /\ pc' = "loop"
    /\ UNCHANGED <<op, arg, text, ignore_invalid, record_token,
                   json_zone_file, calls, raised, tokens, tokVars, flatVars>>

\* one iteration of `for line in lines`
DefaultNameLine ==
    /\ op = "add_default_name" /\ pc = "loop" /\ Len(record_lines) > 0
    /\ tokens' = IF Len(tokenize_line(Head(record_lines))) = 0 THEN <<>>
                  ELSE default_name_tokens(tokenize_line(Head(record_lines)))
    /\ ret' = IF Len(tokens') = 0 THEN ret ELSE Append(ret, serialize(tokens'))
    /\ record_lines' = Tail(record_lines)
    /\ UNCHANGED <<op, pc, arg, text, ignore_invalid, record_token,
                   json_zone_file, calls, raised, tokVars, flatVars>>

\* return "\n".join(ret)
DefaultNameReturn ==
    /\ op = "add_default_name" /\ pc = "loop" /\ Len(record_lines) = 0
    /\ ret' = join(ret, <<"\n">>)
    /\ pc' = "done"
    /\ UNCHANGED <<op, arg, text, pipeVars, raised, tokens, tokVars, flatVars>>

NextDefaultName == DefaultNameSplit \/ DefaultNameLine \/ DefaultNameReturn

SpecDefaultName == InitDefaultName /\ [][NextDefaultName]_vars

-----------------------------------------------------------------------------
(* parse_line(parser, record_token, parsed_records) called over and over on *)
(* one accumulator, the way parse_lines calls it, with the token lists       *)
(* chosen freely.                                                           *)

MaxCalls == 2

\* a TTL token and the integer it stands for
Ttls == {[tok |-> <<"7">>, val |-> 7], [tok |-> <<"1", "2">>, val |-> 12]}

\* what stands between the name and the record type
Mids ==
    {<<>>, <<<<"7", "x">>>>, <<DEFAULT_CLASS>>}
    \cup {<<t.tok>> : t \in Ttls}
    \cup {<<t.tok, DEFAULT_CLASS>> : t \in Ttls}
    \cup {<<DEFAULT_CLASS, t.tok>> : t \in Ttls}

RRNames == {<<"w">>}
RRTypes == {"A", "MX", "PTR"}
Rdatas == {<<>>, <<<<"1">>>>, <<<<"1">>, <<"h">>>>}

TokenLines ==
    {<<n>> \o mid \o <<Chars(T)>> \o rd :
        n \in RRNames, mid \in Mids, T \in RRTypes, rd \in Rdatas}
    \cup {<<Chars("$ORIGIN"), <<"e">>>>, <<Chars("$TTL"), <<"7">>>>,
          <<Chars("$TTL"), <<"h">>>>, <<>>}

InitParseLine ==
    /\ op = "parse_line"
    /\ pc = "ready"
    /\ arg = <<>>
    /\ text = <<>>
    /\ ignore_invalid = FALSE
    /\ record_lines = <<>>
    /\ record_token = <<>>
    /\ json_zone_file = <<>>
    /\ calls = 0
    /\ raised = NotRaised
    /\ tokens = <<>>
    /\ ret = <<>>
    /\ TokIdle
    /\ FlatIdle

\* the record the call appended to one of the lists, as <<record>>; <<>> if none
Stored(before, after) ==
    LET ks == {k \in DOMAIN after :
                 /\ k \notin {"$origin", "$ttl"}
                 /\ (k \notin DOMAIN before \/ Len(after[k]) > Len(before[k]))}
    IN  IF ks = {} THEN <<>>
        ELSE LET k == CHOOSE x \in ks : TRUE IN <<after[k][Len(after[k])]>>

\* the caller's side of one call, r being what parse_line gave
ParseLineCallResult(r) ==
    /\ json_zone_file' = r.parsed_records
    /\ raised' = Raised(r.raised, r.line)
    /\ ret' = Stored(json_zone_file, r.parsed_records)
    /\ pc' = IF r.raised = NoException THEN "ready" ELSE "raised"

\* parsed_records = parse_line(parser, record_token, parsed_records)
ParseLineCall ==
    /\ op = "parse_line" /\ pc = "ready" /\ calls < MaxCalls
    /\ \E toks \in TokenLines :
          /\ record_token' = toks
          /\ ParseLineCallResult(parse_line(toks, json_zone_file))
    /\ calls' = calls + 1
    /\ UNCHANGED <<op, arg, text, ignore_invalid, record_lines,
                   tokens, tokVars, flatVars>>

NextParseLine == ParseLineCall

SpecParseLine == InitParseLine /\ [][NextParseLine]_vars

-----------------------------------------------------------------------------
(* Properties of the parse_zone_file pipeline (specification Spec).         *)

Last(q) == q[Len(q)]

\* C1: once a $ORIGIN line has been processed, a later PTR line
\* `<name> PTR <host>` is stored in the ptr list with fullname equal to
\* name + "." + origin.  (Violated: parse_line looks the origin up under
\* '$ORIGIN' while the accumulator keeps it under '$origin', so the
\* concatenation meets None and raises TypeError.)
C1_PtrFullnameFromOrigin ==
    (/\ op = "parse_zone_file"
     /\ Len(record_token) = 3
     /\ record_token[2] = Chars("PTR")
     /\ "$origin" \in DOMAIN json_zone_file)
    => /\ raised = NotRaised
       /\ "ptr" \in DOMAIN json_zone_file
       /\ "fullname" \in DOMAIN Last(json_zone_file["ptr"])
       /\ Last(json_zone_file["ptr"])["fullname"]
            = record_token[1] \o <<".">> \o json_zone_file["$origin"]

\* the tokens parse_lines sees for a zonefile made of the one line l
NormTokens(l) == tokenize_line(add_default_name(flatten(remove_comments(l))))

\* what parse_line does with the line l on its own
DispatchOf(l) == parse_line(NormTokens(l), <<>>).raised

ValidRecordLine(l) == Len(NormTokens(l)) > 0 /\ DispatchOf(l) = NoException

\* the line is not one the grammar dispatcher can turn into a record
FailsDispatch(l) ==
    /\ Len(NormTokens(l)) > 0
    /\ DispatchOf(l) \in {"InvalidLineException", "AssertionError"}

\* the lines are N >= 1 valid record lines plus exactly one failing line
OneBadLine(ls) ==
    /\ Len(ls) >= 2
    /\ \E i \in 1..Len(ls) :
          /\ FailsDispatch(ls[i])
          /\ \A j \in (1..Len(ls)) \ {i} : ValidRecordLine(ls[j])

BadIndex(ls) == CHOOSE i \in 1..Len(ls) : FailsDispatch(ls[i])

WithoutLine(ls, i) == SubSeq(ls, 1, i - 1) \o SubSeq(ls, i + 1, Len(ls))

\* C2: for a zonefile of N valid record lines plus exactly one line that
\* fails grammar dispatch, strict mode raises an error carrying the offending
\* line, and lenient mode returns exactly what parsing the text without the
\* bad line returns.  (Violated: a line such as `w 7 A` leaves parse_line as
\* an AssertionError, which parse_lines does not catch.)
C2_LenientSkipsOneBadLine ==
    (/\ op = "parse_zone_file"
     /\ pc = "done"
     /\ OneBadLine(split(arg, "\n")))
    => IF ignore_invalid
       THEN /\ raised = NotRaised
            /\ ret = parse_zone_file(
                        join(WithoutLine(split(arg, "\n"), BadIndex(split(arg, "\n"))),
                             <<"\n">>),
                        TRUE).json_zone_file
       ELSE /\ raised.type # NoException
            /\ raised.line = Line(NormTokens(split(arg, "\n")[BadIndex(split(arg, "\n"))]))

\* the text holds no record: every line is blank or only a comment
NoRecord(t) == \A l \in {split(t, "\n")[i] : i \in 1..Len(split(t, "\n"))} :
                  nonempty(tokenize_line(l)) = <<>>

\* C10: parse_zone_file on a text that holds no record returns an empty
\* ZoneFile without raising, in strict and in lenient mode.  (Violated: the
\* normalised text is "", "".split("\n") is [""], and the empty token list
\* reaches parse_line, where argparse rejects it.)
C10_EmptyZonefileParses ==
    (op = "parse_zone_file" /\ pc = "done" /\ NoRecord(arg))
    => (raised = NotRaised /\ ret = <<>>)

-----------------------------------------------------------------------------
(* Properties of tokenize_line and serialize (specification SpecTokenize).  *)

NoQuoteNoBackslash(toks) ==
    \A i \in 1..Len(toks) : ~Contains(toks[i], "\"") /\ ~Contains(toks[i], "\\")

\* C3: serialize is a left inverse of tokenize_line on token lists without
\* double quotes and backslashes: tokenize_line(serialize(tokens)) = tokens,
\* empty tokens and tokens with tabs included.  (Violated: serialize quotes
\* a token only when it holds a space, so a tab splits it, and an empty
\* token leaves nothing on the line.)
C3_SerializeLeftInverse ==
    (op = "serialize" /\ pc = "done" /\ NoQuoteNoBackslash(arg)) => ret = arg

\* C8: a backslash toggles escape-next-character: met while not escaped it
\* is consumed and sets the flag; met while escaped it goes into the token
\* buffer and clears the flag.  (Violated: the code sets the flag on every
\* backslash and never emits one.)
C8_BackslashToggles ==
    [][(/\ op = "tokenize_line" /\ pc = "scan" /\ Len(ll) > 0 /\ Head(ll) = "\\")
       => IF escape
          THEN escape' = FALSE /\ tokbuf' = Append(tokbuf, "\\")
          ELSE escape' = TRUE /\ tokbuf' = tokbuf]_vars

-----------------------------------------------------------------------------
(* Properties of add_default_name (specification SpecDefaultName).          *)

Words(l) == nonempty(split(l, " "))

\* the line starts with a record type and no record type follows it within
\* the TTL/class window: the name field was omitted
NameOmitted(l) ==
    /\ InSupported(Words(l)[1])
    /\ ~startswith(Words(l)[1], "$")
    /\ ~\E p \in 2..Len(Words(l)) : p <= 4 /\ InSupported(Words(l)[p])

\* what the claim expects for the lines ls
RECURSIVE ExpectedNames(_)
ExpectedNames(ls) ==
    IF Len(ls) = 0 THEN <<>>
    ELSE (IF Len(ls[1]) = 0 THEN <<>>
          ELSE IF NameOmitted(ls[1]) THEN <<<<"@", " ">> \o ls[1]>>
          ELSE <<ls[1]>>)
         \o ExpectedNames(Tail(ls))

\* C4: add_default_name leaves every line that has a name field unchanged,
\* also when the name is spelled like a record type (`A 7 IN A 1`), and
\* prepends `@` only to lines whose name field was omitted (`A 1`).
\* (Violated: the code prepends `@` whenever the first token is a record
\* type.)
C4_NamedLinesUnchanged ==
    (op = "add_default_name" /\ pc = "done")
    => ret = join(ExpectedNames(split(arg, "\n")), <<"\n">>)

-----------------------------------------------------------------------------
(* Properties of flatten (specification SpecFlatten).                       *)

FlatWords(l) == nonempty(split(replace(l, "\t", <<" ">>), " "))

NumOpening(l) == Cardinality({i \in 1..Len(FlatWords(l)) : startswith(FlatWords(l)[i], "(")})
NumClosing(l) == Cardinality({i \in 1..Len(FlatWords(l)) : endswith(FlatWords(l)[i], ")")})

\* the lines are one record: a group opened on the first line and closed on
\* the last, with no other parenthesis
GroupRecord(ls) ==
    /\ Len(ls) >= 2
    /\ \A i \in 1..Len(ls) : Len(FlatWords(ls[i])) > 0
    /\ NumOpening(ls[1]) = 1 /\ NumClosing(ls[1]) = 0
    /\ NumOpening(ls[Len(ls)]) = 0 /\ NumClosing(ls[Len(ls)]) = 1
    /\ \A i \in 2..(Len(ls) - 1) : NumOpening(ls[i]) = 0 /\ NumClosing(ls[i]) = 0

\* the words of the lines in order, parentheses removed
RECURSIVE PlainWords(_)
PlainWords(ls) ==
    IF Len(ls) = 0 THEN <<>>
    ELSE nonempty([i \in 1..Len(FlatWords(ls[1])) |->
                      rstrip(lstrip(FlatWords(ls[1])[i], "("), ")")])
         \o PlainWords(Tail(ls))

\* C5: flatten turns a record whose parenthesized group spans several lines
\* into exactly one line holding the same non-parenthesis tokens in order,
\* joined by single spaces: `n ( h` / `h )` gives `n h h`.  (Violated: the
\* emptied parenthesis tokens and the line-break sentinels are joined in as
\* empty words, giving `n  h  h `.)
C5_GroupFlattensToOneLine ==
    (op = "flatten" /\ pc = "done" /\ GroupRecord(split(arg, "\n")))
    => ret = join(PlainWords(split(arg, "\n")), <<" ">>)

\* the token stream of the text, '' closing every line
FlatStream(t) == flatten_tokens(split(t, "\n"))

\* the token at k opens a group that no later token closes
UnclosedAt(T, k) ==
    /\ startswith(T[k], "(")
    /\ \A j \in k..Len(T) : ~endswith(T[j], ")")

HasUnclosed(T) == \E k \in 1..Len(T) : UnclosedAt(T, k)

Opener(T) == CHOOSE k \in 1..Len(T) :
                UnclosedAt(T, k) /\ \A j \in 1..(k - 1) : ~UnclosedAt(T, j)

\* the stream of the lines before the line that holds token k
LinesBefore(T, k) ==
    LET ends == {j \in 1..(k - 1) : Len(T[j]) = 0}
    IN  IF ends = {} THEN <<>>
        ELSE SubSeq(T, 1, CHOOSE j \in ends : \A i \in ends : i <= j)

\* C9: once a token beginning with `(` opens a group that no token ending
\* with `)` closes, capturing stays on to the end of the input and nothing
\* buffered since the last flush is emitted: the output holds exactly the
\* lines flushed before the line that opened the group.
C9_UnclosedGroupDropsTheRest ==
    (/\ op = "flatten"
     /\ pc \in {"scan", "done"}
     /\ HasUnclosed(FlatStream(arg))
     /\ Len(FlatStream(arg)) - Len(tokens) >= Opener(FlatStream(arg)))
    => LET T == FlatStream(arg)
           before == FlatScan(FlatState0, LinesBefore(T, Opener(T))).flattened
       IN  /\ capturing
           /\ flattened = before
           /\ pc = "done" => ret = join(before, <<"\n">>)

\* `n h` / `n ( h` / `n h`: the first line is all that comes out
C9_Witness ==
    /\ op = "flatten"
    /\ pc = "done"
    /\ arg = join(<<<<"n", " ", "h">>, <<"n", " ", "(", " ", "h">>, <<"n", " ", "h">>>>,
                  <<"\n">>)
    /\ capturing
    /\ ret = <<"n", " ", "h">>

-----------------------------------------------------------------------------
(* Properties of parse_line (specification SpecParseLine).                  *)

\* C6: TTL and class commute: `<name> IN <t> <type> <rdata>` and
\* `<name> <t> IN <type> <rdata>` give the same result on every accumulator,
\* and the record they store has ttl = t as an integer and class "IN".
C6_TtlClassCommute ==
    op = "parse_line" =>
        \A n \in RRNames, t \in Ttls, T \in RRTypes, rd \in Rdatas :
            LET a == parse_line(<<n, DEFAULT_CLASS, t.tok, Chars(T)>> \o rd,
                                json_zone_file)
                b == parse_line(<<n, t.tok, DEFAULT_CLASS, Chars(T)>> \o rd,
                                json_zone_file)
                rec == Stored(json_zone_file, a.parsed_records)
            IN  /\ a.raised = b.raised
                /\ a.parsed_records = b.parsed_records
                /\ a.raised = NoException =>
                      /\ rec # <<>>
                      /\ rec[1]["ttl"] = t.val
                      /\ rec[1]["class"] = DEFAULT_CLASS
                      /\ "_missing_class" \notin DOMAIN rec[1]
                /\ (/\ record_token = <<n, DEFAULT_CLASS, t.tok, Chars(T)>> \o rd
                    /\ raised.type = NoException)
                   => (ret # <<>> /\ ret[1]["ttl"] = t.val)

\* `w IN 12 A 1` was parsed and stored with ttl 12
C6_Witness ==
    /\ op = "parse_line"
    /\ record_token = <<<<"w">>, DEFAULT_CLASS, <<"1", "2">>, Chars("A"), <<"1">>>>
    /\ raised = NotRaised
    /\ ret # <<>>
    /\ ret[1]["ttl"] = 12
    /\ ret[1]["class"] = DEFAULT_CLASS

AllDigits(tok) == Len(tok) > 0 /\ \A i \in 1..Len(tok) : isdigit(tok[i])

\* the line has the shape `<name> <type> ...` or `<name> <ttl> <type> ...`
NoClassToken(toks) ==
    /\ Len(toks) >= 2
    /\ \/ InSupported(toks[2])
       \/ Len(toks) >= 3 /\ AllDigits(toks[2]) /\ InSupported(toks[3])

\* C7: a record stored by parse_line carries _missing_class: true exactly
\* when its line had no class token, and then its class is "IN"; `w A 1`
\* gives {name: "w", class: "IN", ip: "1", _missing_class: true}, no ttl.
C7_MissingClassHint ==
    (op = "parse_line" /\ ret # <<>>)
    => /\ "_missing_class" \in DOMAIN ret[1] <=> NoClassToken(record_token)
       /\ "_missing_class" \in DOMAIN ret[1] =>
             (ret[1]["_missing_class"] = TRUE /\ ret[1]["class"] = DEFAULT_CLASS)
       /\ record_token = <<<<"w">>, Chars("A"), <<"1">>>> =>
             ret[1] = ("name" :> <<"w">>) @@ ("class" :> DEFAULT_CLASS)
                      @@ ("ip" :> <<"1">>) @@ ("_missing_class" :> TRUE)

\* `w 7 A 1` was parsed: the class was defaulted and the hint is there
C7_Witness ==
    /\ op = "parse_line"
    /\ record_token = <<<<"w">>, <<"7">>, Chars("A"), <<"1">>>>
    /\ ret # <<>>
    /\ "_missing_class" \in DOMAIN ret[1]
    /\ ret[1]["ttl"] = 7

====
